---------------------------- MODULE Spec2Model ----------------------------
(***************************************************************************)
(* A model of the page-backed allocator of include/Malloc.hpp:             *)
(* MMapObject (one OS mapping and the outstanding-mapping counter),        *)
(* BigAlloc (one mapping per oversized request), Arena (a one-page pool of *)
(* equal-size slots, bump allocated) and ArenaStore (the size-classed      *)
(* front end).                                                             *)
(*                                                                         *)
(* Addresses are natural numbers.  The address space holds the pages       *)
(* 1..NumPages; page q covers [q*pageSize, (q+1)*pageSize).  Page 0 (the   *)
(* null page) and the pages above NumPages are never mapped.               *)
(*                                                                         *)
(* A size_t holds a value modulo 2^64; TLC's integers have 32 bits, so a   *)
(* size_t value v >= 2^63 is written v - 2^64 (-1 is SIZE_MAX).  Adding a  *)
(* small constant is then exact modulo 2^64, and ULE is the unsigned <=.   *)
(*                                                                         *)
(* Several specifications drive the same code:                             *)
(*   Spec       one thread's ArenaStore: alloc(bytes) and free(ptr);       *)
(*   SpecArena  one pool driven through Arena's own public interface       *)
(*              (create, alloc, free) and released by ArenaStore::free;    *)
(*   SpecConc   several threads running ArenaStore::free step by step on   *)
(*              the slots of one pool;                                     *)
(*   SpecRace   the owner of a pool running Arena::alloc step by step while *)
(*              the other threads free its slots step by step;             *)
(*   SpecMixed  one pool driven through Arena::create and Arena::alloc,     *)
(*              next to one large allocation at a time made through the    *)
(*              Store, all of them released by ArenaStore::free;           *)
(*   SpecSizes  a caller that holds at most MaxLive pointers and uses the  *)
(*              Store with request sizes on both sides of every size-class *)
(*              boundary and at the top of size_t;                         *)
(*   SpecEntry  a caller that holds at most MaxLive pointers and uses the  *)
(*              entry points myMalloc and myFree next to the Store.        *)
(***************************************************************************)
EXTENDS Integers, Sequences, FiniteSets, TLC

VARIABLES
    mem,         \* page number -> what the OS has mapped there (headers included)
    outstanding, \* MMapObject::s_outstandingPages
    m_arenas,    \* ArenaStore::m_arenas of the one Store
    status,      \* "run", or the signal that ended the process: "SEGV", "TRAP"
    live,        \* Spec: the pointers allocate returned and free has not yet got
    last,        \* the last call: its arguments, its result, the state before it
    arena,       \* SpecArena, SpecConc: the Arena* the caller holds (Null: none)
    held,        \* SpecArena, SpecConc: page number -> the slots of the pool
                 \* that callers hold and whose address lies in that page:
                 \* how many (n) and the one issued last (p)
    count,       \* SpecArena, SpecConc: what has happened to the pool so far:
                 \* slots issued, calls of Arena::free that returned true,
                 \* decrements of the counter by frees, and (SpecConc) frees
                 \* that began before the pool was full
    pc,          \* SpecConc, SpecRace: thread -> position inside
                 \* ArenaStore::free; for thread 0, the owner of the pool,
                 \* inside Arena::alloc
    loc          \* SpecConc, SpecRace: thread -> the locals of its call

vars == <<mem, outstanding, m_arenas, status, live, last, arena, held, count,
          pc, loc>>

---------------------------------------------------------------------------
(* Program constants *)

pageSize == 4096

\* sizeof(BigAlloc): the two size_t of MMapObject, m_data[0] adds nothing
sizeofBigAlloc == 16

\* sizeof(Arena) with the char* counted as 4 bytes
sizeofArena_packed == 16 + 24 + 4

\* sizeof(Arena): MMapObject (16) + three atomic<size_t> (24) + char* (8)
sizeofArena == 48

\* the value s_outstandingPages-- leaves when it was 0: SIZE_MAX (2^64 - 1),
\* written -1 because TLC's integers have 32 bits
SIZE_MAX == -1

Null == 0

\* the index of the last pool of m_arenas the code uses (sizes 8 .. 1024)
LastClass == 7

---------------------------------------------------------------------------
(* Bounds of the model *)

\* pages of address space
NumPages == 3

\* threads that free in SpecConc
NumThreads == 3

\* calls of Arena::free the caller of SpecArena makes on one pool
MaxFrees == 7

Pages == 1..NumPages

\* request sizes the caller of Spec draws from
ReqSizes == {0, 8, 9, 512, 1024, 1025, 4081}

\* item sizes the caller of SpecArena creates pools with
ItemSizes == {8, 16, 32, 64, 128, 256, 512, 1024}

\* item sizes of the pool the threads of SpecConc share
ConcItemSizes == {1024}

\* request sizes of the large allocations of SpecMixed
LargeSizes == {1025, 4081}

\* values the return register may hold when myMalloc falls off its end:
\* null, an address of the null page, an address of page 1
ReturnRegister == {Null, sizeofBigAlloc, pageSize + sizeofArena}

\* request sizes the caller of SpecEntry draws from
EntrySizes == {8, 1025}

\* pointers from the Store or from myMalloc that the caller of SpecSizes or
\* of SpecEntry holds at a time
MaxLive == 1

\* request sizes the caller of SpecSizes draws from: both sides of every
\* boundary of the if-chain, and 2^64 - 17, 2^64 - 16, 2^64 - 15, 2^64 - 1
AllSizes ==
    {0, 1, 8, 9, 16, 17, 32, 33, 64, 65, 128, 129, 256, 257, 512, 513,
     1024, 1025, 4081, 0 - 17, 0 - 16, 0 - 15, SIZE_MAX}

---------------------------------------------------------------------------
(* The OS: mmap and munmap *)

\* An unmapped page.
Unmapped ==
    [kind |-> "free", mmapSize |-> 0, arenaSize |-> 0, freedItems |-> 0,
     totalSpaceUsed |-> 0, totalSpaceUsedNoHeader |-> 0, m_next |-> Null]

\* A freshly mapped anonymous page: readable, writable, zero filled.  The
\* first page of a mapping is read as its header ("hdr"); the following
\* pages ("body") hold payload only.
Zeroed(k) == [Unmapped EXCEPT !.kind = k]

NPages(size) == (size + pageSize - 1) \div pageSize

PageOf(addr) == addr \div pageSize

\* What the page holds; every page outside 1..NumPages is unmapped.
Region(m, q) == IF q \in Pages THEN m[q] ELSE Unmapped

\* mmap(nullptr, size, ...) may answer with the run of pages starting at q.
Fits(m, q, size) ==
    /\ size > 0
    /\ \A x \in q..(q + NPages(size) - 1) : x \in Pages /\ m[x].kind = "free"

\* munmap(addr, len): a length of 0 is EINVAL and unmaps nothing.
munmap(m, q, len) ==
    [x \in Pages |-> IF len > 0 /\ x >= q /\ x < q + NPages(len)
                     THEN Unmapped ELSE m[x]]

---------------------------------------------------------------------------
(* MMapObject *)

\* MMapObject::alloc(size, arenaSize); q = 0 stands for mmap answering
\* MAP_FAILED, any other q for the page mmap placed the mapping at.
MMapObject_alloc(m, out, q, size, arenaSize) ==
    IF q = 0
    THEN [mem |-> m, out |-> out, obj |-> Null]
    ELSE [mem |-> [x \in Pages |->
                     IF x = q
                     THEN [Zeroed("hdr") EXCEPT !.mmapSize = size,
                                                !.arenaSize = arenaSize]
                     ELSE IF x > q /\ x < q + NPages(size)
                          THEN Zeroed("body") ELSE m[x]],
          out |-> out + 1,
          obj |-> q * pageSize]

\* s_outstandingPages-- on a size_t
Decrement(n) == IF n = 0 THEN SIZE_MAX ELSE n - 1

\* MMapObject::dealloc(obj)
MMapObject_dealloc(m, out, obj) ==
    LET n == obj - (obj % pageSize)
        map == Region(m, PageOf(n))
    IN  IF map.kind = "free"
        THEN [mem |-> m, out |-> out, sig |-> "SEGV"]   \* map->mmapSize()
        ELSE [mem |-> munmap(m, PageOf(n), map.mmapSize),
              out |-> Decrement(out),
              sig |-> IF out = 0 THEN "TRAP" ELSE "none"]

---------------------------------------------------------------------------
(* BigAlloc *)

\* BigAlloc::alloc with the size passed as the item size of the mapping too.
BigAlloc_alloc_sized(m, out, q, size) ==
    LET fullSize == size + sizeofBigAlloc
        a == MMapObject_alloc(m, out, q, fullSize, size)
    IN  [mem |-> a.mem, out |-> a.out, ret |-> a.obj + sizeofBigAlloc]

\* BigAlloc::alloc(size): no test of MMapObject::alloc's result; the
\* address of m_data is taken from whatever it returned.
BigAlloc_alloc(m, out, q, size) ==
    LET fullSize == size + sizeofBigAlloc
        a == MMapObject_alloc(m, out, q, fullSize, 0)
    IN  [mem |-> a.mem, out |-> a.out, ret |-> a.obj + sizeofBigAlloc]

---------------------------------------------------------------------------
(* Arena *)

\* Arena::create(itemSize).  With obj null the store to obj->m_next faults.
\* sizeof(obj) is the size of a pointer, 8, so the SIGTRAP is never raised.
Arena_create(m, out, q, itemSize) ==
    LET a == MMapObject_alloc(m, out, q, pageSize, itemSize)
    IN  IF a.obj = Null
        THEN [mem |-> a.mem, out |-> a.out, obj |-> Null, sig |-> "SEGV"]
        ELSE [mem |-> [a.mem EXCEPT ![q].m_next = a.obj + sizeofArena,
                                    ![q].totalSpaceUsed = sizeofArena],
              out |-> a.out, obj |-> a.obj, sig |-> "none"]

\* Arena::full() with >= for >: a pool that would end exactly at the end
\* of the page counts as full one slot early.
Arena_full_early(r) == r.totalSpaceUsed + r.arenaSize >= pageSize

\* Arena::full() without the arenaSize() term: the pool counts as full only
\* once the space used has passed the end of the page.
Arena_full_late(r) == r.totalSpaceUsed > pageSize

\* Arena::full() on the header r
Arena_full(r) == r.totalSpaceUsed + r.arenaSize > pageSize

\* Arena::alloc() without the store to m_next: the counters advance, the
\* cursor stays.
Arena_alloc_hdr_stuck(r, a) ==
    IF r.totalSpaceUsed + r.arenaSize <= pageSize
    THEN [hdr |-> [r EXCEPT !.totalSpaceUsed = @ + r.arenaSize,
                            !.totalSpaceUsedNoHeader = @ + r.arenaSize],
          ret |-> r.m_next,
          sig |-> IF r.m_next = Null THEN "TRAP" ELSE "none"]
    ELSE [hdr |-> r, ret |-> Null, sig |-> "none"]

\* Arena::alloc() on the header r of the pool at address a:
\* &m_data[i] is a + sizeof(Arena) + i.
Arena_alloc_hdr(r, a) ==
    IF ~Arena_full(r)
    THEN LET used == r.totalSpaceUsed + r.arenaSize
         IN  [hdr |-> [r EXCEPT !.totalSpaceUsed = used,
                                !.totalSpaceUsedNoHeader = @ + r.arenaSize,
                                !.m_next = a + sizeofArena + used],
              ret |-> r.m_next,
              sig |-> IF r.m_next = Null THEN "TRAP" ELSE "none"]
    ELSE [hdr |-> r, ret |-> Null, sig |-> "none"]

\* Arena::alloc() through the pointer a; a pool whose page is gone faults.
Arena_alloc(m, a) ==
    LET q == PageOf(a)
        r == Region(m, q)
    IN  IF r.kind = "free"
        THEN [mem |-> m, ret |-> Null, sig |-> "SEGV"]
        ELSE LET h == Arena_alloc_hdr(r, a)
             IN  [mem |-> [m EXCEPT ![q] = h.hdr], ret |-> h.ret, sig |-> h.sig]

\* Arena::free() on the header r, run without interruption.
Arena_free_hdr(r) ==
    LET freed == r.freedItems + 1
        r2 == [r EXCEPT !.freedItems = freed]
    IN  [hdr |-> r2,
         ret |-> (freed = r2.totalSpaceUsedNoHeader \div r2.arenaSize)
                 /\ Arena_full(r2)]

---------------------------------------------------------------------------
(* ArenaStore *)

\* a <= b on size_t
ULE(a, b) == IF (a < 0) = (b < 0) THEN a <= b ELSE b < 0

\* The branch of ArenaStore::alloc that serves `bytes`: the index of its
\* pool in m_arenas, or LastClass + 1 for the BigAlloc branch.
Branch(bytes) ==
    IF ULE(bytes, 8) THEN 0
    ELSE IF ULE(bytes, 16) THEN 1
    ELSE IF ULE(bytes, 32) THEN 2
    ELSE IF ULE(bytes, 64) THEN 3
    ELSE IF ULE(bytes, 128) THEN 4
    ELSE IF ULE(bytes, 256) THEN 5
    ELSE IF ULE(bytes, 512) THEN 6
    ELSE IF ULE(bytes, 1024) THEN 7
    ELSE LastClass + 1

\* The item size each branch passes to Arena::create.
BranchItemSize(i) == 2 ^ (i + 3)

\* One pool branch of ArenaStore::alloc.  Branch 0 never stores newArena;
\* the others store it and then, like branch 0, store `arena` (the entry
\* as it was read at the top) back over it.
ArenaStore_alloc_pool(m, out, tab, q, i) ==
    LET a == tab[i]
    IN  IF a = Null
        THEN LET c == Arena_create(m, out, q, BranchItemSize(i))
             IN  IF c.sig # "none"
                 THEN [mem |-> c.mem, out |-> c.out, tab |-> tab, ret |-> Null,
                       sig |-> c.sig, from |-> Null, made |-> Null]
                 ELSE LET tab1 == IF i = 0 THEN tab ELSE [tab EXCEPT ![i] = c.obj]
                          t == Arena_alloc(c.mem, c.obj)
                      IN  [mem |-> t.mem, out |-> c.out,
                           tab |-> [tab1 EXCEPT ![i] = a],
                           ret |-> t.ret, sig |-> t.sig,
                           from |-> c.obj, made |-> c.obj]
        ELSE LET t == Arena_alloc(m, a)
             IN  [mem |-> t.mem, out |-> out, tab |-> [tab EXCEPT ![i] = a],
                  ret |-> t.ret, sig |-> t.sig, from |-> a, made |-> Null]

\* ArenaStore::alloc(bytes).  `from` is the pool Arena::alloc was called on
\* and `made` the pool this call created (Null: none).
ArenaStore_alloc(m, out, tab, q, bytes) ==
    IF Branch(bytes) <= LastClass
    THEN ArenaStore_alloc_pool(m, out, tab, q, Branch(bytes))
    ELSE LET b == BigAlloc_alloc(m, out, q, bytes)
         IN  [mem |-> b.mem, out |-> b.out, tab |-> tab, ret |-> b.ret,
              sig |-> "none", from |-> Null, made |-> Null]

\* Whether ArenaStore::alloc(bytes) calls mmap, and with what length.
CallsMmap(tab, bytes) ==
    Branch(bytes) > LastClass \/ tab[Branch(bytes)] = Null

MmapLength(bytes) ==
    IF Branch(bytes) > LastClass THEN bytes + sizeofBigAlloc ELSE pageSize

\* ArenaStore::free(ptr).  `pool` tells which branch ran, `freed` what
\* Arena::free returned in the pool branch: the code stores it in a local
\* it never reads, and calls MMapObject::dealloc in both branches.  `entered`
\* tells whether the call got as far as MMapObject::dealloc.
ArenaStore_free(m, out, ptr) ==
    LET n == ptr - (ptr % pageSize)
        map == Region(m, PageOf(n))
    IN  IF map.kind = "free"
        THEN [mem |-> m, out |-> out, sig |-> "SEGV",      \* map->arenaSize()
              pool |-> FALSE, freed |-> FALSE, entered |-> FALSE]
        ELSE IF map.arenaSize = 0
        THEN LET d == MMapObject_dealloc(m, out, ptr)
             IN  [mem |-> d.mem, out |-> d.out, sig |-> d.sig,
                  pool |-> FALSE, freed |-> FALSE, entered |-> TRUE]
        ELSE LET f == Arena_free_hdr(map)
                 d == MMapObject_dealloc([m EXCEPT ![PageOf(n)] = f.hdr], out, ptr)
             IN  [mem |-> d.mem, out |-> d.out, sig |-> d.sig,
                  pool |-> TRUE, freed |-> f.ret, entered |-> TRUE]

---------------------------------------------------------------------------
(* Spec: one thread and its ArenaStore *)

\* no value
None == 0 - 1

\* The record of a call.  os tells what the mmap of the call answered:
\* "failed" (MAP_FAILED), "mapped", or "none" when the call made none; c0
\* is the counter as it was when the call entered MMapObject::dealloc
\* (None: it did not enter it).
NoCall ==
    [op |-> "none", arg |-> 0, ret |-> Null, out0 |-> 0, pool |-> FALSE,
     freed |-> FALSE, from |-> Null, made |-> Null, hdr0 |-> Unmapped,
     tab0 |-> [i \in 0..(LastClass + 1) |-> Null], os |-> "none", c0 |-> None]

\* The bytes of a pointer's slot: the pool's item size, or the request.
SlotSize(bytes) ==
    IF Branch(bytes) <= LastClass THEN BranchItemSize(Branch(bytes)) ELSE bytes

\* The locals of a thread inside ArenaStore::free(ptr): map is the page
\* address computed from ptr; x and y are the two sides of the comparison
\* in Arena::free (None: not yet loaded); len is map->mmapSize() as read by
\* MMapObject::dealloc, and c0 the counter as the call found it on entering
\* MMapObject::dealloc.
NoLocals == [ptr |-> Null, map |-> Null, x |-> None, y |-> None,
             freed |-> FALSE, len |-> 0, c0 |-> None]

Init ==
    /\ mem = [q \in Pages |-> Unmapped]
    /\ outstanding = 0
    /\ m_arenas = [i \in 0..(LastClass + 1) |-> Null]
    /\ status = "run"
    /\ live = {}
    /\ last = NoCall
    /\ arena = Null
    /\ held = [q \in 0..(NumPages + 1) |-> [n |-> 0, p |-> Null]]
    /\ count = [issued |-> 0, drained |-> 0, released |-> 0, early |-> 0]
    /\ pc = [t \in 0..NumThreads |-> "idle"]
    /\ loc = [t \in 0..NumThreads |-> NoLocals]

\* p = store.alloc(bytes); q is the OS's answer to the mmap the call makes
\* (0: MAP_FAILED), and 0 when the call makes none.
Alloc(bytes, q) ==
    /\ status = "run"
    /\ IF CallsMmap(m_arenas, bytes)
       THEN q = 0 \/ Fits(mem, q, MmapLength(bytes))
       ELSE q = 0
    /\ LET r == ArenaStore_alloc(mem, outstanding, m_arenas, q, bytes)
       IN  /\ mem' = r.mem
           /\ outstanding' = r.out
           /\ m_arenas' = r.tab
           /\ status' = IF r.sig = "none" THEN "run" ELSE r.sig
           /\ live' = IF r.sig = "none" /\ r.ret # Null
                      THEN live \cup {[ptr |-> r.ret, size |-> SlotSize(bytes)]}
                      ELSE live
           /\ last' = [NoCall EXCEPT !.op = "alloc", !.arg = bytes,
                          !.ret = r.ret, !.out0 = outstanding,
                          !.from = r.from, !.made = r.made, !.tab0 = m_arenas,
                          !.os = IF ~CallsMmap(m_arenas, bytes) THEN "none"
                                 ELSE IF q = 0 THEN "failed" ELSE "mapped"]
    /\ UNCHANGED <<arena, held, count, pc, loc>>

\* store.free(p) of a pointer allocate returned and free has not yet got
Free(l) ==
    /\ status = "run"
    /\ l \in live
    /\ LET r == ArenaStore_free(mem, outstanding, l.ptr)
       IN  /\ mem' = r.mem
           /\ outstanding' = r.out
           /\ status' = IF r.sig = "none" THEN "run" ELSE r.sig
           /\ last' = [NoCall EXCEPT !.op = "free", !.arg = l.ptr,
                          !.out0 = outstanding, !.pool = r.pool,
                          !.freed = r.freed, !.tab0 = m_arenas,
                          !.hdr0 = Region(mem, PageOf(l.ptr)),
                          !.c0 = IF r.entered THEN outstanding ELSE None]
    /\ live' = live \ {l}
    /\ UNCHANGED <<m_arenas, arena, held, count, pc, loc>>

Next ==
    \/ \E bytes \in ReqSizes, q \in 0..NumPages : Alloc(bytes, q)
    \/ \E l \in live : Free(l)

Spec == Init /\ [][Next]_vars

---------------------------------------------------------------------------
(* Claims settled under Spec *)

AllocReturned == last.op = "alloc" /\ status = "run"

PoolAllocReturned == AllocReturned /\ Branch(last.arg) <= LastClass

\* C1: a free of a pool's slot for which Arena::free returned false leaves
\* the pool's page mapped and the outstanding-mapping counter as it was.
C1_ReleaseOnlyOnDrain ==
    (last.op = "free" /\ last.pool /\ ~last.freed)
        => /\ outstanding = last.out0
           /\ Region(mem, PageOf(last.arg)).kind = "hdr"

\* C2: after alloc(n), n <= 1024, has returned a slot, the table entry of
\* n's size class is the pool that issued the slot, and a pool was created
\* only if the entry was empty.
C2_TableHoldsIssuingPool ==
    (PoolAllocReturned /\ last.ret # Null)
        => /\ m_arenas[Branch(last.arg)] = last.from
           /\ (last.made # Null => last.tab0[Branch(last.arg)] = Null)

Disjoint(p1, n1, p2, n2) == p1 # p2 /\ (p1 + n1 <= p2 \/ p2 + n2 <= p1)

\* C5: the pointer an allocate call returns is distinct from every pointer
\* that is live at the call, and its bytes overlap none of theirs.
C5_LiveDisjoint ==
    [][(last'.op = "alloc" /\ status' = "run" /\ last'.ret # Null)
          => \A l \in live :
                Disjoint(l.ptr, l.size, last'.ret, SlotSize(last'.arg))]_vars

\* C12: when the mmap of an allocate call fails, on the pool path as on the
\* large path, the call returns null, the process is not ended by a signal,
\* and the counter and the table are as they were before the call.
C12_MapFailureReturnsNull ==
    (last.op = "alloc" /\ last.os = "failed")
        => /\ status = "run"
           /\ last.ret = Null
           /\ outstanding = last.out0
           /\ m_arenas = last.tab0

PoolHeaders(m) ==
    [q \in Pages |-> IF m[q].kind = "hdr" /\ m[q].arenaSize # 0
                     THEN m[q] ELSE Unmapped]

---------------------------------------------------------------------------
(* SpecArena: one pool, driven through Arena's public interface *)

(* ArenaStore::free(ptr) and MMapObject::dealloc(ptr) read ptr only through *)
(* ptr - ptr % pageSize, so the slots a caller holds in one page are        *)
(* interchangeable: `held` keeps their number and one of them per page.     *)

Take(h, q) == [h EXCEPT ![q].n = @ - 1]

Give(h, ptr) == [h EXCEPT ![PageOf(ptr)] = [n |-> @.n + 1, p |-> ptr]]

\* a = Arena::create(itemSize); q is mmap's answer (0: MAP_FAILED)
ACreate(itemSize, q) ==
    /\ status = "run"
    /\ arena = Null
    /\ q = 0 \/ Fits(mem, q, pageSize)
    /\ LET c == Arena_create(mem, outstanding, q, itemSize)
       IN  /\ mem' = c.mem
           /\ outstanding' = c.out
           /\ arena' = c.obj
           /\ status' = IF c.sig = "none" THEN "run" ELSE c.sig
           /\ last' = [NoCall EXCEPT !.op = "Arena::create", !.arg = itemSize,
                          !.ret = c.obj, !.out0 = outstanding, !.made = c.obj]
    /\ UNCHANGED <<m_arenas, live, held, count, pc, loc>>

\* p = a->alloc(); last.arg is the number of slots issued before the call
AAlloc ==
    /\ status = "run"
    /\ arena # Null
    /\ LET t == Arena_alloc(mem, arena)
           got == t.sig = "none" /\ t.ret # Null
       IN  /\ mem' = t.mem
           /\ status' = IF t.sig = "none" THEN "run" ELSE t.sig
           /\ held' = IF got THEN Give(held, t.ret) ELSE held
           /\ count' = IF got THEN [count EXCEPT !.issued = @ + 1] ELSE count
           /\ last' = [NoCall EXCEPT !.op = "Arena::alloc", !.arg = count.issued,
                          !.ret = t.ret, !.out0 = outstanding, !.from = arena,
                          !.hdr0 = Region(mem, PageOf(arena))]
    /\ UNCHANGED <<outstanding, m_arenas, live, arena, pc, loc>>

\* a->free() for one of the slots the caller holds (the one in page q)
AFree(q) ==
    /\ status = "run"
    /\ arena # Null
    /\ held[q].n > 0
    /\ LET r == Region(mem, PageOf(arena))
       IN  IF r.kind = "free"
           THEN /\ status' = "SEGV"                        \* freedItems++
                /\ last' = [NoCall EXCEPT !.op = "Arena::free", !.from = arena,
                               !.out0 = outstanding]
                /\ UNCHANGED <<mem, count>>
           ELSE /\ r.freedItems < MaxFrees
                /\ LET f == Arena_free_hdr(r)
                   IN  /\ mem' = [mem EXCEPT ![PageOf(arena)] = f.hdr]
                       /\ count' = IF f.ret THEN [count EXCEPT !.drained = @ + 1]
                                   ELSE count
                       /\ last' = [NoCall EXCEPT !.op = "Arena::free",
                                      !.from = arena, !.freed = f.ret,
                                      !.out0 = outstanding, !.hdr0 = r]
                /\ status' = "run"
    /\ held' = Take(held, q)
    /\ UNCHANGED <<outstanding, m_arenas, live, arena, pc, loc>>

\* store.free(p) for one of the slots the caller holds (the one in page q)
AStoreFree(q) ==
    /\ status = "run"
    /\ held[q].n > 0
    /\ LET r == ArenaStore_free(mem, outstanding, held[q].p)
       IN  /\ mem' = r.mem
           /\ outstanding' = r.out
           /\ status' = IF r.sig = "none" THEN "run" ELSE r.sig
           /\ count' = [count EXCEPT
                          !.drained = IF r.freed THEN @ + 1 ELSE @,
                          !.released = IF r.out # outstanding THEN @ + 1 ELSE @]
           /\ last' = [NoCall EXCEPT !.op = "free", !.arg = held[q].p,
                          !.out0 = outstanding, !.pool = r.pool,
                          !.freed = r.freed, !.from = arena,
                          !.hdr0 = Region(mem, q),
                          !.c0 = IF r.entered THEN outstanding ELSE None]
    /\ held' = Take(held, q)
    /\ UNCHANGED <<m_arenas, live, arena, pc, loc>>

NextArena ==
    \/ \E itemSize \in ItemSizes, q \in 0..NumPages : ACreate(itemSize, q)
    \/ AAlloc
    \/ \E q \in 0..(NumPages + 1) : AFree(q)
    \/ \E q \in 0..(NumPages + 1) : AStoreFree(q)

SpecArena == Init /\ [][NextArena]_vars

---------------------------------------------------------------------------
(* Claims settled under SpecArena *)

ArenaAllocReturned == last.op = "Arena::alloc" /\ status = "run"

\* C4: every slot Arena::alloc issues lies inside the pool's own page,
\* after the header.
C4_SlotInsidePage ==
    (ArenaAllocReturned /\ last.ret # Null)
        => /\ last.from + sizeofArena <= last.ret
           /\ last.ret + last.hdr0.arenaSize <= last.from + last.hdr0.mmapSize
           /\ last.ret - (last.ret % pageSize) = last.from

\* Slots a pool of item size s can hold: floor((4096 - headerSize) / s)
Capacity(s) == (pageSize - sizeofArena) \div s

\* C8: a pool of item size s answers a call of Arena::alloc with a slot
\* exactly when it has issued fewer than floor((4096 - headerSize) / s)
\* slots; a call it answers with null changes nothing of the pool.
C8_Capacity ==
    ArenaAllocReturned
        => /\ (last.ret # Null) <=> (last.arg < Capacity(last.hdr0.arenaSize))
           /\ last.ret = Null
                 => /\ Region(mem, PageOf(arena)) = last.hdr0
                    /\ count.issued = last.arg

\* C8's case: a pool of item size 8 has issued all its 506 slots and has
\* answered one more call with null.
C8_Witness ==
    /\ ArenaAllocReturned /\ last.ret = Null
    /\ last.hdr0.arenaSize = 8
    /\ count.issued = 506

\* C9: the i-th call of Arena::alloc returns start + headerSize + i * itemSize,
\* which is the bump cursor as it was, and advances the cursor by itemSize.
C9_Contiguous ==
    (ArenaAllocReturned /\ last.ret # Null)
        => /\ last.ret = last.from + sizeofArena + last.arg * last.hdr0.arenaSize
           /\ last.ret = last.hdr0.m_next
           /\ Region(mem, PageOf(arena)).m_next
                 = last.hdr0.m_next + last.hdr0.arenaSize

NoneHeld == \A q \in 0..(NumPages + 1) : held[q].n = 0

\* C7: once a pool of item size 8 is exhausted, a free of one of its slots
\* changes the counter only if it reports the drain, and then lowers it by
\* one; the free of the last slot held reports the drain.
C7_DrainReleasesOnce ==
    (last.op = "free" /\ last.pool /\ last.hdr0.arenaSize = 8
        /\ Arena_full(last.hdr0))
        => /\ outstanding = last.out0 - (IF last.freed THEN 1 ELSE 0)
           /\ (NoneHeld /\ status = "run") => last.freed

\* The header of the caller's pool while its page is mapped.
PoolLive(m) == arena # Null /\ Region(m, PageOf(arena)).kind = "hdr"

\* C18: while the pool is live and every slot is freed at most once, the
\* slots issued (totalSpaceUsedNoHeader / itemSize) and the header fit the
\* mapping, no more slots were freed than issued, and totalSpaceUsed is
\* headerSize + totalSpaceUsedNoHeader.
C18_PoolInvariant ==
    PoolLive(mem)
        => LET r == Region(mem, PageOf(arena))
               issued == r.totalSpaceUsedNoHeader \div r.arenaSize
           IN  /\ issued * r.arenaSize + sizeofArena <= r.mmapSize
               /\ r.freedItems <= issued
               /\ issued = count.issued
               /\ r.totalSpaceUsedNoHeader = issued * r.arenaSize
               /\ r.totalSpaceUsed = sizeofArena + r.totalSpaceUsedNoHeader

\* C18's case: a pool of item size 1024 has issued its three slots and all
\* three have been given back through Arena::free.
C18_Witness ==
    /\ PoolLive(mem)
    /\ Region(mem, PageOf(arena)).arenaSize = 1024
    /\ count.issued = 3
    /\ Region(mem, PageOf(arena)).freedItems = 3

\* C19: over the calls of Arena::alloc and Arena::free on one pool the
\* cursor never decreases, a free changes neither the cursor nor the number
\* of slots issued, and a slot returned by Arena::alloc lies above every
\* slot returned before, freed or not.
C19_BumpOnly ==
    [][(PoolLive(mem) /\ PoolLive(mem'))
          => LET r == Region(mem, PageOf(arena))
                 r2 == Region(mem', PageOf(arena))
             IN  /\ r2.m_next >= r.m_next
                 /\ last'.op \in {"Arena::free", "free"}
                       => /\ r2.m_next = r.m_next
                          /\ r2.totalSpaceUsedNoHeader = r.totalSpaceUsedNoHeader
                          /\ r2.totalSpaceUsed = r.totalSpaceUsed
                          /\ count'.issued = count.issued
                 /\ (last'.op = "Arena::alloc" /\ last'.ret # Null)
                       => /\ r2.m_next > r.m_next
                          /\ \A q \in 0..(NumPages + 1) :
                                held[q].p < last'.ret]_vars

\* C19's case: the pool issues a slot after one of its slots was freed.
C19_Witness ==
    /\ ArenaAllocReturned /\ last.ret # Null
    /\ last.hdr0.freedItems > 0

---------------------------------------------------------------------------
(* SpecConc: threads that free the slots of one pool, statement by statement *)

Threads == 1..NumThreads

\* The header the thread's `map` points at.
Map(t) == Region(mem, PageOf(loc[t].map))

\* A load or store through `map` after the page was unmapped.  The call
\* dies inside MMapObject::dealloc if it had got as far as map->mmapSize().
Fault(t) ==
    /\ status' = "SEGV"
    /\ last' = [NoCall EXCEPT !.op = "free", !.arg = loc[t].ptr,
                   !.out0 = outstanding, !.pool = TRUE, !.from = arena,
                   !.c0 = IF pc[t] = "size" THEN outstanding ELSE None]
    /\ UNCHANGED <<mem, outstanding, held, count, pc, loc>>

\* ArenaStore::free(ptr), lines 388-392: the page address and the test of
\* map->arenaSize()
FBegin(t, q) ==
    /\ UNCHANGED <<m_arenas, live, arena>>
    /\ status = "run" /\ pc[t] = "idle"
    /\ held[q].n > 0
    /\ LET ptr == held[q].p
           n == ptr - (ptr % pageSize)
           map == Region(mem, PageOf(n))
       IN  IF map.kind = "free"
           THEN /\ status' = "SEGV"
                /\ UNCHANGED <<pc, loc, count>>
           ELSE /\ status' = "run"
                /\ loc' = [loc EXCEPT ![t] = [NoLocals EXCEPT !.ptr = ptr, !.map = n]]
                /\ pc' = [pc EXCEPT ![t] = IF map.arenaSize = 0 THEN "size" ELSE "inc"]
                /\ count' = IF Arena_full(map) THEN count
                            ELSE [count EXCEPT !.early = @ + 1]
    /\ held' = Take(held, q)
    /\ UNCHANGED <<mem, outstanding, last>>

\* Arena::free, line 199: freedItems++
FInc(t) ==
    /\ UNCHANGED <<m_arenas, live, arena>>
    /\ status = "run" /\ pc[t] = "inc"
    /\ IF Map(t).kind = "free"
       THEN Fault(t)
       ELSE /\ mem' = [mem EXCEPT ![PageOf(loc[t].map)].freedItems = @ + 1]
            /\ pc' = [pc EXCEPT ![t] = "cmp"]
            /\ UNCHANGED <<outstanding, status, held, count, loc, last>>

\* After both sides of the == of line 200 are loaded: the right operand of
\* && is evaluated only if they are equal.
Compared(t, l) ==
    IF l.x = None \/ l.y = None
    THEN /\ pc' = pc
         /\ loc' = [loc EXCEPT ![t] = l]
    ELSE /\ pc' = [pc EXCEPT ![t] = IF l.x = l.y THEN "full" ELSE "size"]
         /\ loc' = [loc EXCEPT ![t] = [l EXCEPT !.x = None, !.y = None]]

\* line 200, left side: freedItems.load().  The two sides of == are
\* evaluated in either order.
FLoadFreed(t) ==
    /\ UNCHANGED <<m_arenas, live, arena>>
    /\ status = "run" /\ pc[t] = "cmp" /\ loc[t].x = None
    /\ IF Map(t).kind = "free"
       THEN Fault(t)
       ELSE /\ Compared(t, [loc[t] EXCEPT !.x = Map(t).freedItems])
            /\ UNCHANGED <<mem, outstanding, status, held, count, last>>

\* line 200, right side: totalSpaceUsedNoHeader.load() / arenaSize()
FLoadUsed(t) ==
    /\ UNCHANGED <<m_arenas, live, arena>>
    /\ status = "run" /\ pc[t] = "cmp" /\ loc[t].y = None
    /\ IF Map(t).kind = "free"
       THEN Fault(t)
       ELSE /\ Compared(t, [loc[t] EXCEPT
                    !.y = Map(t).totalSpaceUsedNoHeader \div Map(t).arenaSize])
            /\ UNCHANGED <<mem, outstanding, status, held, count, last>>

\* line 200, && full(): the value Arena::free returns
FFull(t) ==
    /\ UNCHANGED <<m_arenas, live, arena>>
    /\ status = "run" /\ pc[t] = "full"
    /\ IF Map(t).kind = "free"
       THEN Fault(t)
       ELSE /\ loc' = [loc EXCEPT ![t].freed = Arena_full(Map(t))]
            /\ pc' = [pc EXCEPT ![t] = "size"]
            /\ count' = IF Arena_full(Map(t))
                        THEN [count EXCEPT !.drained = @ + 1] ELSE count
            /\ UNCHANGED <<mem, outstanding, status, held, last>>

\* MMapObject::dealloc, lines 78-82: map->mmapSize()
DSize(t) ==
    /\ UNCHANGED <<m_arenas, live, arena>>
    /\ status = "run" /\ pc[t] = "size"
    /\ IF Map(t).kind = "free"
       THEN Fault(t)
       ELSE /\ loc' = [loc EXCEPT ![t].len = Map(t).mmapSize,
                                  ![t].c0 = outstanding]
            /\ pc' = [pc EXCEPT ![t] = "unmap"]
            /\ UNCHANGED <<mem, outstanding, status, held, count, last>>

\* line 82: munmap(map, size)
DUnmap(t) ==
    /\ UNCHANGED <<m_arenas, live, arena>>
    /\ status = "run" /\ pc[t] = "unmap"
    /\ mem' = munmap(mem, PageOf(loc[t].map), loc[t].len)
    /\ pc' = [pc EXCEPT ![t] = "dec"]
    /\ UNCHANGED <<outstanding, status, held, count, loc, last>>

\* lines 84-92: old = s_outstandingPages--, the SIGTRAP if old == 0, and
\* the return of ArenaStore::free
DDec(t) ==
    /\ UNCHANGED <<m_arenas, live, arena>>
    /\ status = "run" /\ pc[t] = "dec"
    /\ outstanding' = Decrement(outstanding)
    /\ status' = IF outstanding = 0 THEN "TRAP" ELSE "run"
    /\ count' = [count EXCEPT !.released = @ + 1]
    /\ pc' = [pc EXCEPT ![t] = "idle"]
    /\ loc' = [loc EXCEPT ![t] = NoLocals]
    /\ last' = [NoCall EXCEPT !.op = "free", !.arg = loc[t].ptr,
                   !.out0 = outstanding, !.pool = TRUE,
                   !.freed = loc[t].freed, !.from = arena,
                   !.c0 = loc[t].c0]
    /\ UNCHANGED <<mem, held>>

NextConc ==
    \/ \E itemSize \in ConcItemSizes, q \in 0..NumPages : ACreate(itemSize, q)
    \/ AAlloc
    \/ \E t \in Threads, q \in 0..(NumPages + 1) : FBegin(t, q)
    \/ \E t \in Threads : FInc(t)
    \/ \E t \in Threads : FLoadFreed(t)
    \/ \E t \in Threads : FLoadUsed(t)
    \/ \E t \in Threads : FFull(t)
    \/ \E t \in Threads : DSize(t)
    \/ \E t \in Threads : DUnmap(t)
    \/ \E t \in Threads : DDec(t)

SpecConc == Init /\ [][NextConc]_vars

---------------------------------------------------------------------------
(* SpecRace: the owner allocates, statement by statement, while others free *)

\* The thread that owns the pool, and the threads that free its slots: of
\* the NumThreads threads of SpecRace one is the owner.
Owner == 0

Racers == 1..(NumThreads - 1)

\* The owner's load or store through `this` after the page was unmapped.
OFault ==
    /\ status' = "SEGV"
    /\ last' = [NoCall EXCEPT !.op = "Arena::alloc", !.arg = count.issued,
                   !.out0 = outstanding, !.from = arena]
    /\ UNCHANGED <<mem, outstanding, held, count, pc, loc>>

\* Arena::alloc, lines 178-180: the test of full() and temp = m_next
OBegin ==
    /\ UNCHANGED <<m_arenas, live, arena>>
    /\ status = "run" /\ arena # Null /\ pc[Owner] = "idle"
    /\ LET r == Region(mem, PageOf(arena))
       IN  IF r.kind = "free"
           THEN OFault
           ELSE IF Arena_full(r)
           THEN /\ last' = [NoCall EXCEPT !.op = "Arena::alloc",
                               !.arg = count.issued, !.out0 = outstanding,
                               !.from = arena, !.hdr0 = r]
                /\ UNCHANGED <<mem, outstanding, status, held, count, pc, loc>>
           ELSE /\ loc' = [loc EXCEPT ![Owner].ptr = r.m_next]
                /\ pc' = [pc EXCEPT ![Owner] = "used"]
                /\ UNCHANGED <<mem, outstanding, status, held, count, last>>

\* line 181: totalSpaceUsed += arenaSize()
OUsed ==
    /\ UNCHANGED <<m_arenas, live, arena>>
    /\ status = "run" /\ pc[Owner] = "used"
    /\ LET r == Region(mem, PageOf(arena))
       IN  IF r.kind = "free"
           THEN OFault
           ELSE /\ mem' = [mem EXCEPT ![PageOf(arena)].totalSpaceUsed =
                                         @ + r.arenaSize]
                /\ pc' = [pc EXCEPT ![Owner] = "noheader"]
                /\ UNCHANGED <<outstanding, status, held, count, loc, last>>

\* line 182: totalSpaceUsedNoHeader += arenaSize()
ONoHeader ==
    /\ UNCHANGED <<m_arenas, live, arena>>
    /\ status = "run" /\ pc[Owner] = "noheader"
    /\ LET r == Region(mem, PageOf(arena))
       IN  IF r.kind = "free"
           THEN OFault
           ELSE /\ mem' = [mem EXCEPT ![PageOf(arena)].totalSpaceUsedNoHeader =
                                         @ + r.arenaSize]
                /\ pc' = [pc EXCEPT ![Owner] = "next"]
                /\ UNCHANGED <<outstanding, status, held, count, loc, last>>

\* lines 184-189: m_next = &m_data[totalSpaceUsed.load()], the SIGTRAP if
\* temp is null, and return temp
ONext ==
    /\ UNCHANGED <<m_arenas, live, arena>>
    /\ status = "run" /\ pc[Owner] = "next"
    /\ LET r == Region(mem, PageOf(arena))
           temp == loc[Owner].ptr
       IN  IF r.kind = "free"
           THEN OFault
           ELSE /\ mem' = [mem EXCEPT ![PageOf(arena)].m_next =
                                         arena + sizeofArena + r.totalSpaceUsed]
                /\ status' = IF temp = Null THEN "TRAP" ELSE "run"
                /\ held' = IF temp # Null THEN Give(held, temp) ELSE held
                /\ count' = IF temp # Null
                            THEN [count EXCEPT !.issued = @ + 1] ELSE count
                /\ pc' = [pc EXCEPT ![Owner] = "idle"]
                /\ loc' = [loc EXCEPT ![Owner] = NoLocals]
                /\ last' = [NoCall EXCEPT !.op = "Arena::alloc",
                               !.arg = count.issued, !.ret = temp,
                               !.out0 = outstanding, !.from = arena]
                /\ UNCHANGED outstanding

NextRace ==
    \/ \E itemSize \in ConcItemSizes, q \in 0..NumPages : ACreate(itemSize, q)
    \/ OBegin
    \/ OUsed
    \/ ONoHeader
    \/ ONext
    \/ \E t \in Racers, q \in 0..(NumPages + 1) : FBegin(t, q)
    \/ \E t \in Racers : FInc(t)
    \/ \E t \in Racers : FLoadFreed(t)
    \/ \E t \in Racers : FLoadUsed(t)
    \/ \E t \in Racers : FFull(t)
    \/ \E t \in Racers : DSize(t)
    \/ \E t \in Racers : DUnmap(t)
    \/ \E t \in Racers : DDec(t)

SpecRace == Init /\ [][NextRace]_vars

---------------------------------------------------------------------------
(* Claims settled under SpecConc and SpecRace *)

\* C6: when the slots of a pool are freed by several threads, every free
\* beginning after the pool is full, then whatever the interleaving of the
\* steps of Arena::free, at most one of its calls returns true.
C6_OneDrainReport == count.early = 0 => count.drained <= 1

\* The mappings acquired and not yet released: one header page each.
Mappings(m) == Cardinality({q \in Pages : m[q].kind = "hdr"})

\* C20: the counter never wraps below zero; whenever no thread is inside a
\* call it equals the number of mappings acquired and not yet released; a
\* successful MMapObject::alloc raised it by one and a failed one left it.
C20_CounterIsMappings ==
    /\ outstanding # SIZE_MAX
    /\ (\A t \in 0..NumThreads : pc[t] = "idle")
          => outstanding = Mappings(mem)
    /\ last.op = "Arena::create"
          => outstanding = last.out0 + (IF last.made # Null THEN 1 ELSE 0)

\* C17: with the owner inside Arena::alloc while other threads run
\* Arena::free on the same pool, no call of Arena::free has returned true
\* while a slot the pool issued is still held by its caller or the owner
\* is in the middle of issuing one.
C17_NoDrainUnderLiveSlot ==
    count.drained > 0 => (NoneHeld /\ pc[Owner] = "idle")

\* C13: a call of MMapObject::dealloc that finds the counter at 0 ends in
\* SIGTRAP; one that finds it above 0 does not trap and leaves the counter
\* one lower.
C13_TrapIffZero ==
    (last.op = "free" /\ last.c0 # None)
        => IF last.c0 = 0
           THEN status = "TRAP"
           ELSE status # "TRAP" /\ outstanding = last.c0 - 1

---------------------------------------------------------------------------
(* SpecMixed: the slots of one pool next to a large allocation *)

NextMixed ==
    \/ \E itemSize \in ItemSizes, q \in 0..NumPages : ACreate(itemSize, q)
    \/ AAlloc
    \/ \E q \in 0..(NumPages + 1) : AStoreFree(q)
    \/ \E bytes \in LargeSizes, q \in 0..NumPages :
          live = {} /\ Alloc(bytes, q)
    \/ \E l \in live : Free(l)

SpecMixed == Init /\ [][NextMixed]_vars

\* C15: every non-null pointer allocate returns is a multiple of 8: the
\* slots of a pool, for every item size and every issue index, and the
\* large allocations.
C15_Aligned ==
    /\ (last.op \in {"alloc", "Arena::alloc"} /\ last.ret # Null)
          => last.ret % 8 = 0
    /\ \A l \in live : l.ptr % 8 = 0
    /\ \A q \in 0..(NumPages + 1) : held[q].p % 8 = 0

\* C15's case: a pool of item size 8 issues a slot after its first one while
\* a large allocation that was mapped is live.
C15_Witness ==
    /\ ArenaAllocReturned /\ last.ret # Null
    /\ last.hdr0.arenaSize = 8 /\ last.arg >= 1
    /\ \E l \in live : l.ptr # Null + sizeofBigAlloc

---------------------------------------------------------------------------
(* SpecSizes: the Store over every size class; SpecEntry: the entry points *)

NextSizes ==
    \/ \E bytes \in AllSizes, q \in 0..NumPages :
          Cardinality(live) < MaxLive /\ Alloc(bytes, q)
    \/ \E l \in live : Free(l)

SpecSizes == Init /\ [][NextSizes]_vars

\* p = myMalloc(n).  The body is empty (its two statements are commented
\* out), so control flows off the end of a function that returns void*:
\* undefined behaviour.  The builds either return whatever the return
\* register holds (r) or run into a trap instruction planted at the end of
\* the function (SIGILL).  No build touches the allocator.
MyMalloc(n, r, trapped) ==
    /\ status = "run"
    /\ status' = IF trapped THEN "ILL" ELSE "run"
    /\ live' = IF ~trapped /\ r # Null
               THEN live \cup {[ptr |-> r, size |-> SlotSize(n)]} ELSE live
    /\ last' = [NoCall EXCEPT !.op = "myMalloc", !.arg = n,
                   !.ret = IF trapped THEN Null ELSE r,
                   !.out0 = outstanding, !.tab0 = m_arenas]
    /\ UNCHANGED <<mem, outstanding, m_arenas, arena, held, count, pc, loc>>

\* myFree(p) of a pointer the caller holds.  The body is empty.
MyFree(l) ==
    /\ status = "run"
    /\ l \in live
    /\ live' = live \ {l}
    /\ last' = [NoCall EXCEPT !.op = "myFree", !.arg = l.ptr,
                   !.out0 = outstanding, !.tab0 = m_arenas,
                   !.hdr0 = Region(mem, PageOf(l.ptr))]
    /\ UNCHANGED <<mem, outstanding, m_arenas, status, arena, held, count,
                   pc, loc>>

NextEntry ==
    \/ \E bytes \in EntrySizes, q \in 0..NumPages :
          Cardinality(live) < MaxLive /\ Alloc(bytes, q)
    \/ \E l \in live : Free(l)
    \/ \E n \in EntrySizes, r \in ReturnRegister, trapped \in BOOLEAN :
          Cardinality(live) < MaxLive /\ MyMalloc(n, r, trapped)
    \/ \E l \in live : MyFree(l)

SpecEntry == Init /\ [][NextEntry]_vars

---------------------------------------------------------------------------
(* Claims settled under SpecSizes and SpecEntry *)

LargeAllocMapped ==
    AllocReturned /\ Branch(last.arg) > LastClass
        /\ last.ret # Null + sizeofBigAlloc

\* C11: for every request size s > 1024 of size_t, a BigAlloc::alloc(s)
\* whose mapping succeeded returns the address right after the header of a
\* mapping of at least s + sizeof(BigAlloc) bytes, the sum taken without
\* wrap-around, so that [p, p + s) lies inside the mapping.
C11_LargeSpan ==
    LargeAllocMapped
        => LET q == PageOf(last.ret)
           IN  /\ last.ret = q * pageSize + sizeofBigAlloc
               /\ Region(mem, q).kind = "hdr"
               /\ last.arg >= 0
               /\ Region(mem, q).mmapSize >= last.arg + sizeofBigAlloc

\* The reference size-class function: the smallest class of ItemSizes that
\* is >= n, or 0 when there is none (n > 1024).
RefClass(n) ==
    LET S == {c \in ItemSizes : ULE(n, c)}
    IN  IF S = {} THEN 0 ELSE CHOOSE c \in S : \A d \in S : c <= d

\* The table index of a class: its rank among the classes.
ClassIndex(c) == Cardinality({d \in ItemSizes : d < c})

\* C14: for every n, alloc(n) serves n from a pool whose item size is the
\* smallest class >= n, that pool being kept in the table entry of the
\* class, and serves every n > 1024 by a large allocation.
C14_SizeClass ==
    (AllocReturned /\ last.ret # Null)
        => LET c == RefClass(last.arg)
           IN  IF c # 0
               THEN /\ last.from # Null
                    /\ PageOf(last.ret) = PageOf(last.from)
                    /\ Region(mem, PageOf(last.from)).arenaSize = c
                    /\ m_arenas[ClassIndex(c)] = last.from
               ELSE /\ last.from = Null
                    /\ last.os = "mapped"
                          => /\ Region(mem, PageOf(last.ret)).kind = "hdr"
                             /\ Region(mem, PageOf(last.ret)).arenaSize = 0

\* The sizes alone, which holds: the item size of the serving pool is the
\* reference class, and the large branch serves exactly the sizes without one.
SizeClassOnly ==
    (AllocReturned /\ last.ret # Null)
        => LET c == RefClass(last.arg)
           IN  IF c # 0
               THEN /\ last.from # Null
                    /\ Region(mem, PageOf(last.from)).arenaSize = c
               ELSE last.from = Null

\* C16: myMalloc(n) does what the Store's alloc(n) does and returns its
\* pointer; myFree(p) does what the Store's free(p) does.
C16_EntryPointsRefine ==
    [][/\ last'.op = "myMalloc"
          => \E q \in 0..NumPages :
               /\ IF CallsMmap(m_arenas, last'.arg)
                  THEN q = 0 \/ Fits(mem, q, MmapLength(last'.arg))
                  ELSE q = 0
               /\ LET r == ArenaStore_alloc(mem, outstanding, m_arenas, q,
                                            last'.arg)
                  IN  /\ mem' = r.mem
                      /\ outstanding' = r.out
                      /\ m_arenas' = r.tab
                      /\ status' = IF r.sig = "none" THEN "run" ELSE r.sig
                      /\ r.sig = "none" => last'.ret = r.ret
       /\ last'.op = "myFree"
          => LET r == ArenaStore_free(mem, outstanding, last'.arg)
             IN  /\ mem' = r.mem
                 /\ outstanding' = r.out
                 /\ status' = IF r.sig = "none" THEN "run" ELSE r.sig]_vars

=============================================================================
